---- MODULE Spec2Model ----
(***************************************************************************)
(* A model of the indexing and retrieval pipeline of poetry_translator:    *)
(*   rag_index.py          split_text, index_file, index_directory,        *)
(*                         save_index, main                                *)
(*   simple_translator.py  load_index, find_poems_by_translator            *)
(* Strings are sequences of one-character strings; Python's 0-based        *)
(* indices are kept and translated at the SubSeq calls.                    *)
(***************************************************************************)
EXTENDS Integers, Sequences, FiniteSets, TLC

VARIABLES
    \* split_text: parameters, cursor, result list, control point,
    \* and the history of the windows (start, end) each iteration used
    text, chunk_size, overlap, start, chunks, windows, pc,
    \* the call of index_file, index_directory or find_poems_by_translator
    \* under study: its arguments, and what it returned
    call, result,
    \* the index store: the files of INDEX_DIR by index name; the chunks
    \* last passed to save_index per name; the most recent operation
    disk, saved, last

splitVars == <<text, chunk_size, overlap, start, chunks, windows, pc>>

callVars == <<call, result>>

storeVars == <<disk, saved, last>>

vars == <<splitVars, callVars, storeVars>>

----------------------------------------------------------------------------
\* Bounds of the model

\* longest text given to split_text
MaxLen == 6

\* largest chunk_size given to split_text
MaxChunk == 5

\* iterations of split_text's loop the model follows; above MaxLen, so
\* that a run that advances every iteration always finishes below it
MaxIter == MaxLen + 2

\* a plain letter, a sentence terminator that is not whitespace, a blank,
\* and the newline, which is both whitespace and a sentence boundary
Alphabet == {"a", ".", " ", "\n"}

\* the characters of the model that str.strip() removes
Whitespace == {" ", "\n"}

\* the strings of at most n characters of the set alpha
RECURSIVE StringsUpTo(_, _)
StringsUpTo(alpha, n) ==
    IF n = 0 THEN {<<>>}
    ELSE LET shorter == StringsUpTo(alpha, n - 1)
         IN  shorter \cup {Append(s, c) : s \in {x \in shorter : Len(x) = n - 1},
                                           c \in alpha}

----------------------------------------------------------------------------
\* The parts of the state a specification does not use

NoCall == [fn |-> "none"]

SplitIdle ==
    /\ text = <<>>
    /\ chunk_size = 1
    /\ overlap = 0
    /\ start = 0
    /\ chunks = <<>>
    /\ windows = <<>>
    /\ pc = "idle"

CallIdle ==
    /\ call = NoCall
    /\ result = NoCall

StoreIdle ==
    /\ disk = <<>>
    /\ saved = <<>>
    /\ last = NoCall

----------------------------------------------------------------------------
\* Python string primitives

Max(a, b) == IF a >= b THEN a ELSE b

Min(a, b) == IF a <= b THEN a ELSE b

\* an index of s[a:b] as Python normalises it: a negative index counts from
\* the end, and the result is clamped to 0..len
SliceIndex(i, n) == IF i < 0 THEN Max(i + n, 0) ELSE Min(i, n)

\* s[a:b]
Slice(s, a, b) ==
    LET lo == SliceIndex(a, Len(s))
        hi == SliceIndex(b, Len(s))
    IN  IF lo < hi THEN SubSeq(s, lo + 1, hi) ELSE <<>>

\* s.rfind(c): the highest 0-based index of c in s, or -1
RFind(s, c) ==
    LET hits == {i \in 1..Len(s) : s[i] = c}
    IN  IF hits = {} THEN -1
        ELSE (CHOOSE i \in hits : \A j \in hits : j <= i) - 1

\* s.strip(): s without its leading and trailing whitespace
Strip(s) ==
    IF \A i \in 1..Len(s) : s[i] \in Whitespace THEN <<>>
    ELSE LET first == CHOOSE i \in 1..Len(s) :
                          /\ s[i] \notin Whitespace
                          /\ \A j \in 1..(i - 1) : s[j] \in Whitespace
             last_ == CHOOSE i \in 1..Len(s) :
                          /\ s[i] \notin Whitespace
                          /\ \A j \in (i + 1)..Len(s) : s[j] \in Whitespace
         IN  SubSeq(s, first, last_)

----------------------------------------------------------------------------
\* split_text, one loop iteration from cursor s

\* max(chunk.rfind("."), chunk.rfind("!"), chunk.rfind("?"), chunk.rfind("\n"))
LastSentence(chunk) ==
    Max(Max(RFind(chunk, "."), RFind(chunk, "!")),
        Max(RFind(chunk, "?"), RFind(chunk, "\n")))

\* a cut wherever a sentence ends, however early in the window
InMiddle_AnyOffset(last_sentence, cs) == last_sentence >= 0

\* last_sentence > chunk_size * 0.5, on integers
InMiddle(last_sentence, cs) == 2 * last_sentence > cs

\* the chunk and the end the body of the loop computes at cursor s
SplitBody(t, cs, s) ==
    LET end0   == s + cs
        chunk0 == Slice(t, s, end0)
        last_sentence == LastSentence(chunk0)
    IN  IF end0 < Len(t) /\ InMiddle(last_sentence, cs)
        THEN [chunk |-> Slice(chunk0, 0, last_sentence + 1),
              end   |-> s + last_sentence + 1]
        ELSE [chunk |-> chunk0, end |-> end0]

\* start = end - overlap
NextStart(end, ov) == end - ov

SplitIter ==
    /\ pc = "loop"
    /\ start < Len(text)
    /\ Len(chunks) < MaxIter
    /\ LET b == SplitBody(text, chunk_size, start)
       IN  /\ chunks' = Append(chunks, Strip(b.chunk))
           /\ windows' = Append(windows, <<start, b.end>>)
           /\ start' = NextStart(b.end, overlap)
           /\ pc' = IF NextStart(b.end, overlap) >= Len(text) THEN "done" ELSE "loop"
    /\ UNCHANGED <<text, chunk_size, overlap, callVars, storeVars>>

\* the while condition fails on entry (the empty text)
SplitExit ==
    /\ pc = "loop"
    /\ ~(start < Len(text))
    /\ pc' = "done"
    /\ UNCHANGED <<text, chunk_size, overlap, start, chunks, windows>>
    /\ UNCHANGED <<callVars, storeVars>>

SplitInit ==
    /\ text \in StringsUpTo(Alphabet, MaxLen)
    /\ chunk_size \in 1..MaxChunk
    /\ overlap \in 0..(chunk_size - 1)
    /\ start = 0
    /\ chunks = <<>>
    /\ windows = <<>>
    /\ pc = "loop"
    /\ CallIdle
    /\ StoreIdle

SplitNext == SplitIter \/ SplitExit

\* split_text on every text of at most MaxLen characters, for every
\* chunk_size up to MaxChunk and every overlap below it
Spec == SplitInit /\ [][SplitNext]_vars

\* longer texts, over fewer characters: the bounds a cursor that moves
\* backwards below 0 needs (chunk_size 7, a text of 8 characters)
LongLen == 8

LongChunk == 7

LongAlphabet == {"a", ".", " "}

LongInit ==
    /\ text \in StringsUpTo(LongAlphabet, LongLen)
    /\ chunk_size \in 1..LongChunk
    /\ overlap \in 0..(chunk_size - 1)
    /\ start = 0
    /\ chunks = <<>>
    /\ windows = <<>>
    /\ pc = "loop"
    /\ CallIdle
    /\ StoreIdle

SpecLong == LongInit /\ [][SplitNext]_vars

----------------------------------------------------------------------------
\* split_text as index_file calls it: the whole loop, with the defaults

CHUNK_SIZE == 500

CHUNK_OVERLAP == 50

RECURSIVE SplitFrom(_, _, _, _, _)
SplitFrom(t, cs, ov, s, acc) ==
    IF ~(s < Len(t)) THEN acc
    ELSE LET b == SplitBody(t, cs, s)
         IN  SplitFrom(t, cs, ov, NextStart(b.end, ov), Append(acc, Strip(b.chunk)))

\* split_text(text, chunk_size, overlap)
SplitText(t, cs, ov) == SplitFrom(t, cs, ov, 0, <<>>)

----------------------------------------------------------------------------
\* Files and paths

\* str.lower() on the letters the model uses
LowerOf ==
    [A |-> "a", B |-> "b", J |-> "j", M |-> "m", N |-> "n", O |-> "o",
     S |-> "s", T |-> "t", X |-> "x"]

LowerChar(c) == IF c \in DOMAIN LowerOf THEN LowerOf[c] ELSE c

Lower(s) == [i \in 1..Len(s) |-> LowerChar(s[i])]

\* a path is its name and Path(...).suffix
Path(name, suffix) == [name |-> name, suffix |-> suffix]

DotTxt == <<".", "t", "x", "t">>

DotJson == <<".", "j", "s", "o", "n">>

\* what the file system holds at a path.  readable: open() and a UTF-8
\* read succeed, giving raw.  json: what json.load makes of it: "invalid"
\* (it raises), "object" (a value that lines 81-110 render as full_text:
\* a mapping, or a list or string holding none of the keys, rendered as the
\* empty text) or "other" (a value on which lines 81-107 raise TypeError: a
\* number, true, false, null, a string holding one of the keys, devices
\* that lists non-strings)
TextFile(t) == [readable |-> TRUE, raw |-> t, json |-> "invalid", full_text |-> <<>>]

Unreadable == [readable |-> FALSE, raw |-> <<>>, json |-> "invalid", full_text |-> <<>>]

JsonObject(t) == [readable |-> TRUE, raw |-> <<"{">>, json |-> "object", full_text |-> t]

JsonOther == [readable |-> TRUE, raw |-> <<"5">>, json |-> "other", full_text |-> <<>>]

\* process_json_file: the chunks, or the exception that leaves it
ProcessJsonFile(file) ==
    IF ~file.readable \/ file.json = "invalid"
    THEN [raised |-> FALSE, chunks |-> <<>>]
    ELSE IF file.json = "other"
    THEN [raised |-> TRUE, chunks |-> <<>>]
    ELSE [raised |-> FALSE,
          chunks |-> SplitText(file.full_text, CHUNK_SIZE, CHUNK_OVERLAP)]

----------------------------------------------------------------------------
\* index_file

\* the dict display {"file": ..., "chunk_index": ..., **(metadata or {})}:
\* a key of the caller's metadata replaces the default of the same name
MergeMetadata(file_path, i, metadata) ==
    LET defaults == [file |-> file_path, chunk_index |-> i]
    IN  [k \in DOMAIN defaults \cup DOMAIN metadata |->
            IF k \in DOMAIN metadata THEN metadata[k] ELSE defaults[k]]

\* a failed embedding ends the loop
RECURSIVE IndexChunks_AbortOnFailure(_, _, _, _, _, _)
IndexChunks_AbortOnFailure(file_path, metadata, cs, i, responses, out) ==
    IF i >= Len(cs) THEN out
    ELSE LET chunk == cs[i + 1]
         IN  IF Strip(chunk) = <<>>
             THEN IndexChunks_AbortOnFailure(file_path, metadata, cs, i + 1, responses, out)
             ELSE LET embedding == responses[Len(out.sent) + 1]
                      sent == Append(out.sent, chunk)
                  IN  IF embedding = <<>>
                      THEN [indexed |-> out.indexed, sent |-> sent]
                      ELSE IndexChunks_AbortOnFailure(file_path, metadata, cs, i + 1, responses,
                               [indexed |-> Append(out.indexed,
                                    [text |-> chunk, embedding |-> embedding,
                                     metadata |-> MergeMetadata(file_path, i, metadata)]),
                                sent |-> sent])

\* the loop over enumerate(chunks) from position i: out.indexed is
\* indexed_chunks and out.sent the prompts given to get_embedding so far;
\* responses[k] is what the k-th call of get_embedding returns ([] when
\* the request fails)
RECURSIVE IndexChunks(_, _, _, _, _, _)
IndexChunks(file_path, metadata, cs, i, responses, out) ==
    IF i >= Len(cs) THEN out
    ELSE LET chunk == cs[i + 1]
         IN  IF Strip(chunk) = <<>>
             THEN IndexChunks(file_path, metadata, cs, i + 1, responses, out)
             ELSE LET embedding == responses[Len(out.sent) + 1]
                      sent == Append(out.sent, chunk)
                  IN  IF embedding = <<>>
                      THEN IndexChunks(file_path, metadata, cs, i + 1, responses,
                               [indexed |-> out.indexed, sent |-> sent])
                      ELSE IndexChunks(file_path, metadata, cs, i + 1, responses,
                               [indexed |-> Append(out.indexed,
                                    [text |-> chunk, embedding |-> embedding,
                                     metadata |-> MergeMetadata(file_path, i, metadata)]),
                                sent |-> sent])

\* the chunks index_file loops over, or the exception that leaves it
FileChunks(file_path, file) ==
    IF Lower(file_path.suffix) = DotJson
    THEN ProcessJsonFile(file)
    ELSE IF ~file.readable
    THEN [raised |-> FALSE, chunks |-> <<>>]
    ELSE [raised |-> FALSE, chunks |-> SplitText(file.raw, CHUNK_SIZE, CHUNK_OVERLAP)]

\* index_file(file_path, metadata): status "returned" with the list it
\* returns, or "raised"; chunks and sent record what it looped over and
\* what it sent to the embedding service
IndexFile(file_path, metadata, file, responses) ==
    LET got == FileChunks(file_path, file)
    IN  IF got.raised
        THEN [status |-> "raised", indexed |-> <<>>, chunks |-> <<>>, sent |-> <<>>]
        ELSE LET out == IndexChunks(file_path, metadata, got.chunks, 0, responses,
                                    [indexed |-> <<>>, sent |-> <<>>])
             IN  [status |-> "returned", indexed |-> out.indexed,
                  chunks |-> got.chunks, sent |-> out.sent]

\* the calls of get_embedding index_file makes for a file
NCalls(file_path, file) ==
    LET cs == FileChunks(file_path, file).chunks
    IN  Cardinality({i \in 1..Len(cs) : Strip(cs[i]) # <<>>})

\* get_embedding returns the service's vector, or [] when the request fails
Vectors == {<<>>, <<1>>}

\* file texts: up to MaxSegs segments of one chunk stride each
MaxSegs == 3

Stride == CHUNK_SIZE - CHUNK_OVERLAP

Rep(c, n) == [i \in 1..n |-> c]

Segments ==
    {Rep("a", Stride), Rep(" ", Stride), Append(Rep("a", Stride - 1), ".")}

RECURSIVE FileTexts(_)
FileTexts(n) ==
    IF n = 0 THEN {<<>>}
    ELSE FileTexts(n - 1) \cup
         {t \o g : t \in {x \in FileTexts(n - 1) : Len(x) = (n - 1) * Stride},
                   g \in Segments}

NoMetadata == [k \in {} |-> 0]

OtherPath == Path("other", DotTxt)

\* metadata arguments: None, a key of the caller's own, and the keys of
\* the defaults
MetadataArgs ==
    {NoMetadata,
     [lang |-> "ru"],
     [file |-> OtherPath],
     [chunk_index |-> 7],
     [file |-> OtherPath, chunk_index |-> 7]}

IndexPaths ==
    {Path("a", DotTxt), Path("b", DotJson), Path("c", <<".", "J", "S", "O", "N">>)}

\* a path read as JSON holds a document, of one segment at most; any
\* other holds text
FilesAt(file_path) ==
    IF Lower(file_path.suffix) = DotJson
    THEN {Unreadable, TextFile(<<"a">>), JsonOther}
            \cup {JsonObject(t) : t \in FileTexts(1)}
    ELSE {Unreadable} \cup {TextFile(t) : t \in FileTexts(MaxSegs)}

IndexFileCall ==
    /\ call.fn = "index_file"
    /\ result = NoCall
    /\ result' = IndexFile(call.file_path, call.metadata, call.file, call.responses)
    /\ UNCHANGED <<call, splitVars, storeVars>>

IndexInit ==
    /\ \E file_path \in IndexPaths :
         \E file \in FilesAt(file_path) :
           \E responses \in [1..NCalls(file_path, file) -> Vectors] :
             \E metadata \in MetadataArgs :
               call = [fn |-> "index_file", file_path |-> file_path,
                       metadata |-> metadata, file |-> file, responses |-> responses]
    /\ result = NoCall
    /\ SplitIdle
    /\ StoreIdle

IndexNext == IndexFileCall

\* index_file on every file of FilesAt, with every metadata argument and
\* every pattern of embedding successes and failures
SpecIndex == IndexInit /\ [][IndexNext]_vars

----------------------------------------------------------------------------
\* Claims about split_text

\* the characters of t from 0-based s to e (exclusive), e cut to the length
Window(t, s, e) == SubSeq(t, s + 1, Min(e, Len(t)))

\* text[s_0:e_0], then text[s_k + overlap : e_k] of every later window
RECURSIVE Cores(_, _, _, _)
Cores(t, ov, ws, k) ==
    IF k > Len(ws) THEN <<>>
    ELSE (IF k = 1 THEN Slice(t, ws[1][1], ws[1][2])
          ELSE Slice(t, ws[k][1] + ov, ws[k][2]))
         \o Cores(t, ov, ws, k + 1)

\* C1: for 0 <= overlap < chunk_size, every iteration of split_text's loop
\* strictly increases the cursor start (so the loop cannot run forever).
C1_CursorStrictlyIncreases ==
    [][(chunks' # chunks /\ 0 <= overlap /\ overlap < chunk_size)
          => start' > start]_vars

\* C2: a non-empty text shorter than chunk_size, with 0 <= overlap <
\* chunk_size, is returned as exactly one chunk, the text stripped.
C2_ShortTextOneChunk ==
    (/\ pc = "done"
     /\ text # <<>>
     /\ Len(text) < chunk_size
     /\ 0 <= overlap /\ overlap < chunk_size)
        => chunks = <<Strip(text)>>

\* C3: for 0 <= overlap < chunk_size the chunks are the stripped contents of
\* windows [s_k, e_k) of the text with s_0 = 0, s_{k+1} = e_k - overlap and
\* 0 <= s_k < e_k; the last window reaches the end of the text, and the
\* first window followed by the cores text[s_k + overlap : e_k] of the
\* later ones is the text again.
C3_WindowsCoverText ==
    (0 <= overlap /\ overlap < chunk_size) =>
        /\ Len(chunks) = Len(windows)
        /\ \A k \in 1..Len(windows) :
              LET s == windows[k][1]
                  e == windows[k][2]
              IN  /\ 0 <= s
                  /\ s < e
                  /\ s = IF k = 1 THEN 0 ELSE windows[k - 1][2] - overlap
                  /\ chunks[k] = Strip(Window(text, s, e))
        /\ (pc = "done" /\ text # <<>>) =>
              /\ windows[Len(windows)][2] >= Len(text)
              /\ Cores(text, overlap, windows, 1) = text

\* C10: when chunk_size >= 1 and 0 <= overlap <= chunk_size / 2, every
\* iteration advances start by at least 1, start is never negative, every
\* chunk is at most chunk_size long, a window is cut short only at an offset
\* above chunk_size / 2, and the loop ends within len(text) iterations.
C10_HalfOverlapAdvances ==
    (chunk_size >= 1 /\ 0 <= overlap /\ 2 * overlap <= chunk_size) =>
        /\ start >= 0
        /\ \A k \in 1..Len(windows) :
              LET s == windows[k][1]
                  e == windows[k][2]
                  next == IF k = Len(windows) THEN start ELSE windows[k + 1][1]
              IN  /\ s >= 0
                  /\ next >= s + 1
                  /\ Len(chunks[k]) <= chunk_size
                  /\ e - s = chunk_size \/ 2 * (e - s - 1) > chunk_size
        /\ Len(windows) <= Len(text)
        /\ (pc = "loop" /\ text # <<>>) => Len(windows) < Len(text)
        /\ (pc = "loop" /\ start < Len(text)) => Len(chunks) < MaxIter

\* a finished run with overlap, several windows, one of them cut at a
\* sentence boundary
C10_Witness ==
    /\ pc = "done"
    /\ overlap >= 1
    /\ 2 * overlap <= chunk_size
    /\ Len(windows) >= 3
    /\ \E k \in 1..Len(windows) : windows[k][2] - windows[k][1] < chunk_size

----------------------------------------------------------------------------
\* index_directory

\* the default of the extensions parameter
Extensions ==
    {DotTxt, <<".", "m", "d">>, <<".", "p", "y">>, <<".", "j", "s">>,
     <<".", "h", "t", "m", "l">>, <<".", "c", "s", "s">>, DotJson}

\* s without its first n members
Drop(s, n) == SubSeq(s, n + 1, Len(s))

\* file_path.is_file() and file_path.suffix in extensions: the suffix is
\* matched as it is spelled
Accepted(entry, extensions) ==
    entry.is_file /\ entry.path.suffix \in extensions

\* the loop over path.rglob("*") from entry k: responses are the answers of
\* the embedding service to the calls still to come
RECURSIVE DirectoryLoop(_, _, _, _, _)
DirectoryLoop(entries, extensions, k, responses, all_chunks) ==
    IF k > Len(entries)
    THEN [status |-> "returned", all_chunks |-> all_chunks]
    ELSE IF ~Accepted(entries[k], extensions)
    THEN DirectoryLoop(entries, extensions, k + 1, responses, all_chunks)
    ELSE LET r == IndexFile(entries[k].path, NoMetadata, entries[k].file, responses)
         IN  IF r.status = "raised"
             THEN [status |-> "raised", all_chunks |-> all_chunks]
             ELSE DirectoryLoop(entries, extensions, k + 1,
                                Drop(responses, Len(r.sent)), all_chunks \o r.indexed)

\* index_directory(directory): dir.exists is path.exists() and dir.entries
\* what path.rglob("*") yields, in its order
IndexDirectory(dir, extensions, responses) ==
    IF ~dir.exists
    THEN [status |-> "returned", all_chunks |-> <<>>]
    ELSE DirectoryLoop(dir.entries, extensions, 1, responses, <<>>)

\* the calls of get_embedding index_directory makes if no file raises
RECURSIVE DirCalls(_, _, _)
DirCalls(entries, extensions, k) ==
    IF k > Len(entries) THEN 0
    ELSE (IF Accepted(entries[k], extensions)
          THEN NCalls(entries[k].path, entries[k].file) ELSE 0)
         + DirCalls(entries, extensions, k + 1)

Entry(path, is_file, file) == [path |-> path, is_file |-> is_file, file |-> file]

\* what a directory may hold: a text file of two chunks and one of one
\* chunk, a file that cannot be read, JSON documents (an object, a syntax
\* error, a number), files whose suffix is not accepted (one for its upper
\* case), and directories, one of them named like a text file
DirEntries ==
    {Entry(Path("long", DotTxt), TRUE, TextFile(Rep("a", 2 * Stride))),
     Entry(Path("short", <<".", "m", "d">>), TRUE, TextFile(<<"b">>)),
     Entry(Path("locked", DotTxt), TRUE, Unreadable),
     Entry(Path("poem", DotJson), TRUE, JsonObject(<<"c">>)),
     Entry(Path("broken", DotJson), TRUE, TextFile(<<"{">>)),
     Entry(Path("number", DotJson), TRUE, JsonOther),
     Entry(Path("upper", <<".", "T", "X", "T">>), TRUE, TextFile(<<"d">>)),
     Entry(Path("image", <<".", "b", "i", "n">>), TRUE, TextFile(<<"e">>)),
     Entry(Path("sub", <<>>), FALSE, Unreadable),
     Entry(Path("dir", DotTxt), FALSE, Unreadable)}

\* most entries rglob yields
MaxEntries == 3

\* the listings of at most n entries, no entry twice
RECURSIVE Listings(_)
Listings(n) ==
    IF n = 0 THEN {<<>>}
    ELSE Listings(n - 1) \cup
         {Append(l, e) : l \in {x \in Listings(n - 1) : Len(x) = n - 1},
                         e \in DirEntries}

Distinct(l) == \A i, j \in 1..Len(l) : l[i] = l[j] => i = j

Directories ==
    {[exists |-> FALSE, entries |-> <<>>]}
        \cup {[exists |-> TRUE, entries |-> l] : l \in {x \in Listings(MaxEntries) : Distinct(x)}}

IndexDirectoryCall ==
    /\ call.fn = "index_directory"
    /\ result = NoCall
    /\ result' = IndexDirectory(call.dir, Extensions, call.responses)
    /\ UNCHANGED <<call, splitVars, storeVars>>

DirInit ==
    /\ \E dir \in Directories :
         \E responses \in [1..DirCalls(dir.entries, Extensions, 1) -> Vectors] :
           call = [fn |-> "index_directory", dir |-> dir, responses |-> responses]
    /\ result = NoCall
    /\ SplitIdle
    /\ StoreIdle

DirNext == IndexDirectoryCall

\* index_directory on every directory of at most MaxEntries entries, with
\* every pattern of embedding successes and failures
SpecDir == DirInit /\ [][DirNext]_vars

----------------------------------------------------------------------------
\* pickle: the stream pickle.dump writes for a list of chunk records, and
\* the stack machine pickle.load runs over it

Token(op, arg) == [op |-> op, arg |-> arg]

Op(op) == Token(op, <<>>)

\* a list: EMPTY_LIST, then MARK, the items, APPENDS
PickleList(items) ==
    IF items = <<>> THEN <<Op("EMPTY_LIST")>>
    ELSE <<Op("EMPTY_LIST"), Op("MARK")>> \o items \o <<Op("APPENDS")>>

\* a dict: EMPTY_DICT, then MARK, key, value, ..., SETITEMS
PickleDict(items) ==
    IF items = <<>> THEN <<Op("EMPTY_DICT")>>
    ELSE <<Op("EMPTY_DICT"), Op("MARK")>> \o items \o <<Op("SETITEMS")>>

RECURSIVE Concat(_)
Concat(ss) == IF ss = <<>> THEN <<>> ELSE Head(ss) \o Concat(Tail(ss))

\* the keys of a metadata dict in insertion order: the defaults, then the
\* caller's
MetadataKeys(metadata) ==
    LET Present(k) == k \in DOMAIN metadata
    IN  SelectSeq(<<"file", "chunk_index", "lang">>, Present)

PickleMetadata(metadata) ==
    LET keys == MetadataKeys(metadata)
    IN  PickleDict(Concat([j \in 1..Len(keys) |->
            <<Token("BINUNICODE", keys[j]),
              Token(IF keys[j] = "chunk_index" THEN "BININT" ELSE "BINUNICODE",
                    metadata[keys[j]])>>]))

PickleRecord(r) ==
    PickleDict(
        <<Token("BINUNICODE", "text"), Token("BINUNICODE", r.text),
          Token("BINUNICODE", "embedding")>>
        \o PickleList([j \in 1..Len(r.embedding) |-> Token("BINFLOAT", r.embedding[j])])
        \o <<Token("BINUNICODE", "metadata")>>
        \o PickleMetadata(r.metadata))

\* pickle.dump(chunks, f)
PickleDump(cs) ==
    <<Op("PROTO")>>
    \o PickleList(Concat([j \in 1..Len(cs) |-> PickleRecord(cs[j])]))
    \o <<Op("STOP")>>

\* a stack entry: the mark object, or a value
Mark == [mark |-> TRUE, val |-> <<>>]

Val(v) == [mark |-> FALSE, val |-> v]

\* the position of the topmost mark
TopMark(stack) ==
    CHOOSE i \in 1..Len(stack) :
        stack[i].mark /\ \A j \in (i + 1)..Len(stack) : ~stack[j].mark

\* dict.__setitem__ for key, value, key, value, ... in turn
SetItems(d, items) ==
    LET n    == Len(items) \div 2
        keys == {items[2 * j - 1].val : j \in 1..n}
        At(k) == CHOOSE j \in 1..n :
                    /\ items[2 * j - 1].val = k
                    /\ \A h \in (j + 1)..n : items[2 * h - 1].val # k
    IN  [k \in DOMAIN d \cup keys |->
            IF k \in keys THEN items[2 * At(k)].val ELSE d[k]]

\* the unpickler: its stack, and whether it has read STOP
Unpickler(stack, halted) == [stack |-> stack, halted |-> halted]

\* one opcode of pickle.load; nothing after STOP is read
UnpickleStep(u, t) ==
    LET stack == u.stack
        m     == TopMark(stack)
        items == SubSeq(stack, m + 1, Len(stack))
        below == SubSeq(stack, 1, m - 2)
    IN  CASE u.halted -> u
          [] t.op = "STOP" -> Unpickler(stack, TRUE)
          [] t.op = "PROTO" -> u
          [] t.op = "EMPTY_LIST" -> Unpickler(Append(stack, Val(<<>>)), FALSE)
          [] t.op = "EMPTY_DICT" ->
                Unpickler(Append(stack, Val([k \in {} |-> 0])), FALSE)
          [] t.op = "MARK" -> Unpickler(Append(stack, Mark), FALSE)
          [] t.op = "APPENDS" ->
                Unpickler(Append(below,
                    Val(stack[m - 1].val \o [j \in 1..Len(items) |-> items[j].val])),
                    FALSE)
          [] t.op = "SETITEMS" ->
                Unpickler(Append(below, Val(SetItems(stack[m - 1].val, items))),
                    FALSE)
          [] OTHER -> Unpickler(Append(stack, Val(t.arg)), FALSE)

\* the opcodes tokens[lo..hi] in turn, from unpickler state u: the first
\* half, then the second half from the state w the first half leaves
RECURSIVE Unpickle(_, _, _, _)
Unpickle(tokens, lo, hi, u) ==
    IF lo > hi THEN u
    ELSE IF lo = hi THEN UnpickleStep(u, tokens[lo])
    ELSE LET mid == (lo + hi) \div 2
         IN  CHOOSE v \in {Unpickle(tokens, mid + 1, hi, w) :
                              w \in {Unpickle(tokens, lo, mid, u)}} : TRUE

\* pickle.load(f): the value on top of the stack when STOP is read
PickleLoad(tokens) ==
    LET u == Unpickle(tokens, 1, Len(tokens), Unpickler(<<>>, FALSE))
    IN  u.stack[Len(u.stack)].val

----------------------------------------------------------------------------
\* The index store: save_index and load_index

\* the names of the indexes, each the file INDEX_DIR/<name>.pkl
IndexNames == {"default", "n1"}

NoFile == [exists |-> FALSE, bytes |-> <<>>]

\* mode "ab": the bytes are added to those of the file
WriteBinary_Append(old, bytes) == [exists |-> TRUE, bytes |-> old.bytes \o bytes]

\* open(index_file, "wb") and the write: the file holds the bytes written
WriteBinary(old, bytes) == [exists |-> TRUE, bytes |-> bytes]

\* save_index(chunks, index_name), on the files of INDEX_DIR
SaveIndex(files, cs, index_name) ==
    [files EXCEPT ![index_name] = WriteBinary(files[index_name], PickleDump(cs))]

\* load_index(index_name)
LoadIndex(files, index_name) ==
    IF ~files[index_name].exists THEN <<>>
    ELSE PickleLoad(files[index_name].bytes)

\* how often save_index was called for a name, counted up to MaxSaves, and
\* the chunks of the most recent call
MaxSaves == 2

NeverSaved == [count |-> 0, chunks |-> <<>>]

Saved(old, cs) ==
    [count |-> Min(old.count + 1, MaxSaves), chunks |-> cs]

----------------------------------------------------------------------------
\* main of rag_index.py

\* the working directory: files by the path given on the command line
WorkFiles ==
    [poem   |-> Entry(Path("poem", DotTxt), TRUE, TextFile(<<"a">>)),
     verse  |-> Entry(Path("verse", DotTxt), TRUE, TextFile(<<"b">>)),
     locked |-> Entry(Path("locked", DotTxt), TRUE, Unreadable),
     number |-> Entry(Path("number", DotJson), TRUE, JsonOther)]

\* and its directories
WorkDirs ==
    [poems |-> [exists |-> TRUE, entries |-> <<WorkFiles.poem, WorkFiles.verse>>],
     empty |-> [exists |-> TRUE, entries |-> <<>>]]

\* a path that is no file of the working directory cannot be opened
FileAt(arg) ==
    IF arg \in DOMAIN WorkFiles THEN WorkFiles[arg]
    ELSE Entry(Path(arg, <<>>), FALSE, Unreadable)

\* a path that is a file exists and holds nothing; any other does not exist
DirAt(arg) ==
    IF arg \in DOMAIN WorkDirs THEN WorkDirs[arg]
    ELSE [exists |-> arg \in DOMAIN WorkFiles, entries |-> <<>>]

\* lines 207-223: the index name, and whether a directory or a file is
\* indexed, and which
ParseArgs(args) ==
    IF args[1] = "--dir" /\ Len(args) >= 2
    THEN [index_name |-> IF Len(args) >= 4 /\ args[3] = "--name" THEN args[4]
                         ELSE "default",
          dir |-> TRUE, target |-> args[2]]
    ELSE IF args[1] = "--name" /\ Len(args) >= 3
    THEN [index_name |-> args[2], dir |-> FALSE, target |-> args[3]]
    ELSE [index_name |-> "default", dir |-> FALSE, target |-> args[1]]

\* the index is written whatever the run produced
ShouldSave_Always(cs) == TRUE

\* if chunks:
ShouldSave(cs) == cs # <<>>

\* main with sys.argv[1:] = args: how it ends ("usage": sys.exit(1) before
\* anything is indexed; "raised": an exception leaves it; "saved";
\* "nothing": nothing was indexed), the index name, the chunks of the run,
\* and the files of INDEX_DIR afterwards
Main(args, responses, files) ==
    IF Len(args) < 1
    THEN [outcome |-> "usage", index_name |-> "default", chunks |-> <<>>, files |-> files]
    ELSE LET a == ParseArgs(args)
             r == IF a.dir
                  THEN IndexDirectory(DirAt(a.target), Extensions, responses)
                  ELSE LET got == IndexFile(FileAt(a.target).path, NoMetadata,
                                            FileAt(a.target).file, responses)
                       IN  [status |-> got.status, all_chunks |-> got.indexed]
         IN  IF r.status = "raised"
             THEN [outcome |-> "raised", index_name |-> a.index_name,
                   chunks |-> <<>>, files |-> files]
             ELSE IF ShouldSave(r.all_chunks)
             THEN [outcome |-> "saved", index_name |-> a.index_name,
                   chunks |-> r.all_chunks,
                   files |-> SaveIndex(files, r.all_chunks, a.index_name)]
             ELSE [outcome |-> "nothing", index_name |-> a.index_name,
                   chunks |-> <<>>, files |-> files]

\* the calls of get_embedding a run makes
MainCalls(args) ==
    IF Len(args) < 1 THEN 0
    ELSE LET a == ParseArgs(args)
         IN  IF a.dir THEN DirCalls(DirAt(a.target).entries, Extensions, 1)
             ELSE NCalls(FileAt(a.target).path, FileAt(a.target).file)

\* command lines: each form of the usage text, with and without a name,
\* and the ones that are cut short
ArgLists ==
    {<<>>,
     <<"poem">>, <<"locked">>, <<"number">>, <<"poems">>,
     <<"--name", "n1", "poem">>, <<"--name", "n1", "verse">>,
     <<"--name", "n1", "locked">>, <<"--name", "n1">>,
     <<"--dir", "poems">>, <<"--dir", "empty">>, <<"--dir", "missing">>,
     <<"--dir", "poem">>, <<"--dir">>,
     <<"--dir", "poems", "--name", "n1">>, <<"--dir", "poems", "--name">>,
     <<"--dir", "empty", "--name", "n1">>}

\* chunk records given to save_index directly
SampleRecords ==
    {[text |-> <<"x">>, embedding |-> <<1>>,
      metadata |-> [file |-> Path("x", DotTxt), chunk_index |-> 0]],
     [text |-> <<"y", " ", "Y">>, embedding |-> <<1, 2>>,
      metadata |-> [file |-> Path("x", DotTxt), chunk_index |-> 1, lang |-> "ru"]]}

\* longest list given to save_index directly
MaxSaved == 1

RECURSIVE RecordLists(_)
RecordLists(n) ==
    IF n = 0 THEN {<<>>}
    ELSE RecordLists(n - 1) \cup
         {Append(l, r) : l \in {x \in RecordLists(n - 1) : Len(x) = n - 1},
                         r \in SampleRecords}

SaveIndexCall ==
    \E cs \in RecordLists(MaxSaved), index_name \in IndexNames :
        /\ disk' = SaveIndex(disk, cs, index_name)
        /\ saved' = [saved EXCEPT ![index_name] = Saved(saved[index_name], cs)]
        /\ last' = [fn |-> "save_index", index_name |-> index_name]
        /\ UNCHANGED <<splitVars, callVars>>

LoadIndexCall ==
    \E index_name \in IndexNames :
        /\ last' = [fn |-> "load_index", index_name |-> index_name,
                    returned |-> LoadIndex(disk, index_name)]
        /\ UNCHANGED <<disk, saved, splitVars, callVars>>

MainRun ==
    \E args \in ArgLists :
        \E responses \in [1..MainCalls(args) -> Vectors] :
            \E m \in {Main(args, responses, disk)} :
                /\ disk' = m.files
                /\ saved' = IF m.outcome = "saved"
                            THEN [saved EXCEPT ![m.index_name] =
                                      Saved(saved[m.index_name], m.chunks)]
                            ELSE saved
                /\ last' = [fn |-> "main", outcome |-> m.outcome,
                            index_name |-> m.index_name, chunks |-> m.chunks,
                            before |-> disk]
                /\ UNCHANGED <<splitVars, callVars>>

StoreInit ==
    /\ disk = [n \in IndexNames |-> NoFile]
    /\ saved = [n \in IndexNames |-> NeverSaved]
    /\ last = NoCall
    /\ SplitIdle
    /\ CallIdle

StoreNext == SaveIndexCall \/ LoadIndexCall \/ MainRun

\* any sequence of save_index calls, load_index calls and runs of main
SpecStore == StoreInit /\ [][StoreNext]_vars

----------------------------------------------------------------------------
\* find_poems_by_translator of simple_translator.py

\* sub in s, for strings
In(sub, s) ==
    \E i \in 0..(Len(s) - Len(sub)) : SubSeq(s, i + 1, i + Len(sub)) = sub

\* the name is compared as it was given
TranslatorLower_AsGiven(translator_name) == translator_name

\* translator_lower = translator_name.lower()
TranslatorLower(translator_name) == Lower(translator_name)

\* chunk.get("text", "")
ChunkText(chunk) == IF "text" \in DOMAIN chunk THEN chunk.text ELSE <<>>

\* the loop over the index, from its k-th chunk, found being the list so far
RECURSIVE FindLoop(_, _, _, _)
FindLoop(translator_lower, index, k, found) ==
    IF k > Len(index) THEN found
    ELSE LET chunk      == index[k]
             chunk_text == Lower(ChunkText(chunk))
         IN  FindLoop(translator_lower, index, k + 1,
                 IF In(translator_lower, chunk_text) THEN Append(found, chunk)
                 ELSE found)

FindPoemsByTranslator(translator_name, index) ==
    FindLoop(TranslatorLower(translator_name), index, 1, <<>>)

\* longest translator name, over letters in both cases
MaxName == 2

NameAlphabet == {"S", "s", "m"}

TranslatorNames == StringsUpTo(NameAlphabet, MaxName)

\* chunks of an index: texts that hold a name in one case or the other, at
\* the start or further in; equal texts under different embeddings and
\* metadata; an empty text, and a chunk without the key "text"
IndexedChunks ==
    {[text |-> <<"S", "m">>, embedding |-> <<1>>,
      metadata |-> [file |-> Path("x", DotTxt), chunk_index |-> 0]],
     [text |-> <<"S", "m">>, embedding |-> <<>>,
      metadata |-> [file |-> Path("y", DotTxt), chunk_index |-> 3, lang |-> "ru"]],
     [text |-> <<"m", "s", "M">>, embedding |-> <<1, 2>>,
      metadata |-> [file |-> Path("x", DotTxt), chunk_index |-> 1]],
     [text |-> <<"s", "s">>, embedding |-> <<1>>,
      metadata |-> [file |-> Path("x", DotTxt), chunk_index |-> 2]],
     [text |-> <<>>, embedding |-> <<1>>,
      metadata |-> [file |-> Path("x", DotTxt), chunk_index |-> 4]],
     [embedding |-> <<1>>,
      metadata |-> [file |-> Path("x", DotTxt), chunk_index |-> 5]]}

\* longest index searched
MaxIndex == 3

RECURSIVE Indexes(_)
Indexes(n) ==
    IF n = 0 THEN {<<>>}
    ELSE LET shorter == Indexes(n - 1)
         IN  shorter \cup
             {Append(l, c) : l \in {x \in shorter : Len(x) = n - 1},
                             c \in IndexedChunks}

FindCall ==
    /\ call.fn = "find_poems_by_translator"
    /\ result = NoCall
    /\ result' = [fn |-> "find_poems_by_translator",
                  found |-> FindPoemsByTranslator(call.translator_name, call.index)]
    /\ UNCHANGED <<call, splitVars, storeVars>>

FindInit ==
    /\ \E translator_name \in TranslatorNames, index \in Indexes(MaxIndex) :
          call = [fn |-> "find_poems_by_translator",
                  translator_name |-> translator_name, index |-> index]
    /\ result = NoCall
    /\ SplitIdle
    /\ StoreIdle

FindNext == FindCall

\* one call of find_poems_by_translator, for every name and index
SpecFind == FindInit /\ [][FindNext]_vars

----------------------------------------------------------------------------
\* Claims about index_file

\* the 1-based positions of the chunks that are not empty once stripped
NonBlank(cs) == {i \in 1..Len(cs) : Strip(cs[i]) # <<>>}

\* the call of get_embedding that chunk i is the prompt of, nb being the
\* positions of the chunks that are not blank
CallNo(nb, i) == Cardinality({j \in nb : j <= i})

\* the positions of the chunks whose embedding call returned a vector
Embedded(nb, responses) == {i \in nb : responses[CallNo(nb, i)] # <<>>}

\* the k-th smallest member of a set of numbers
Nth(S, k) == CHOOSE i \in S : Cardinality({j \in S : j < i}) = k - 1

\* C4: every record index_file returns has metadata["file"] equal to the
\* path and metadata["chunk_index"] equal to the zero-based position of its
\* chunk in the chunker's output, whatever metadata the caller passed.
C4_FileAndChunkIndexCorrect ==
    (call.fn = "index_file" /\ result # NoCall /\ result.status = "returned") =>
        LET good == Embedded(NonBlank(result.chunks), call.responses)
        IN  \A k \in 1..Len(result.indexed) :
                /\ result.indexed[k].metadata.file = call.file_path
                /\ result.indexed[k].metadata.chunk_index = Nth(good, k) - 1

----------------------------------------------------------------------------
\* Claims about index_directory

\* what index_file returns for entry k and for each accepted entry after
\* it, one after the other
RECURSIVE FileResults(_, _, _)
FileResults(entries, k, responses) ==
    IF k > Len(entries) THEN <<>>
    ELSE IF entries[k].is_file /\ entries[k].path.suffix \in Extensions
    THEN LET r == IndexFile(entries[k].path, NoMetadata, entries[k].file, responses)
         IN  r.indexed \o FileResults(entries, k + 1, Drop(responses, Len(r.sent)))
    ELSE FileResults(entries, k + 1, responses)

\* C9: index_directory returns the results of index_file for the files
\* with an accepted suffix, concatenated in traversal order, and nothing of
\* any other entry; no file stops the indexing of the files after it, and a
\* root that does not exist gives the empty list.
C9_DirectoryConcatenatesFiles ==
    (call.fn = "index_directory" /\ result # NoCall) =>
        /\ result.status = "returned"
        /\ result.all_chunks =
              IF call.dir.exists THEN FileResults(call.dir.entries, 1, call.responses)
              ELSE <<>>

\* the same, for the directories that hold no JSON document on which
\* process_json_file raises
C9_HoldsWithoutRaisingDocuments ==
    (/\ call.fn = "index_directory"
     /\ result # NoCall
     /\ \A k \in 1..Len(call.dir.entries) : call.dir.entries[k].file # JsonOther) =>
        /\ result.status = "returned"
        /\ result.all_chunks =
              IF call.dir.exists THEN FileResults(call.dir.entries, 1, call.responses)
              ELSE <<>>

----------------------------------------------------------------------------
\* Claims about the index store

\* C6: after any sequence of save_index calls, load_index(name) returns the
\* chunks of the most recent save_index under that name, whatever was saved
\* before and whatever is saved under other names.
C6_LoadReturnsLastSave ==
    /\ \A n \in IndexNames :
          LoadIndex(disk, n) = saved[n].chunks
    /\ last.fn = "load_index" => last.returned = saved[last.index_name].chunks

\* an index saved twice, another one saved under the other name, and then
\* loaded
C6_Witness ==
    /\ last.fn = "load_index"
    /\ saved[last.index_name].count = MaxSaves
    /\ Len(last.returned) = 2
    /\ last.returned[1] # last.returned[2]
    /\ \E n \in IndexNames :
          /\ n # last.index_name
          /\ saved[n].count >= 1
          /\ saved[n].chunks # last.returned

\* C7: every run of main with index name n leaves the stored index n equal
\* to the chunks that run produced, whatever it produced.
C7_RunReplacesStoredIndex ==
    (last.fn = "main" /\ last.outcome \in {"saved", "nothing"}) =>
        LoadIndex(disk, last.index_name) = last.chunks

\* C7, amended: a run of main that produced chunks leaves the stored index
\* n equal to them, and every other index as it was; a run that produced none
\* (or ended early) leaves every stored index as it was.
C7_RunReplacesStoredIndexIfAny ==
    last.fn = "main" =>
        /\ last.outcome = "saved" <=> last.chunks # <<>>
        /\ \A n \in IndexNames :
              LoadIndex(disk, n) =
                  IF last.outcome = "saved" /\ n = last.index_name
                  THEN last.chunks ELSE LoadIndex(last.before, n)

\* both cases: a build that replaced an earlier, different one, and (in
\* another state) a run that produced nothing over a stored index
C7_Witness ==
    /\ last.fn = "main"
    /\ last.outcome = "saved"
    /\ LoadIndex(last.before, last.index_name) \notin {<<>>, last.chunks}
    /\ Len(last.chunks) = 2

----------------------------------------------------------------------------
\* Claims about find_poems_by_translator

\* string v occurs in string t from some offset p on
Occurs(v, t) ==
    \E p \in 0..Len(t) :
        /\ p + Len(v) <= Len(t)
        /\ \A j \in 1..Len(v) : t[p + j] = v[j]

\* the text of a record, lowercased; a record without text has the empty one
LoweredText(r) == Lower(IF "text" \in DOMAIN r THEN r.text ELSE <<>>)

\* C8: find_poems_by_translator(v, index) returns exactly the records whose
\* lowercased text contains lowercased v, in index order, with nothing
\* added, dropped, duplicated or reordered; a name differing from v only in
\* letter case gives the same result; the selection depends on the text only.
C8_FindIsCaseInsensitiveFilter ==
    result.fn = "find_poems_by_translator" =>
        LET v     == call.translator_name
            index == call.index
            sel   == {i \in 1..Len(index) : Occurs(Lower(v), LoweredText(index[i]))}
        IN  /\ Len(result.found) = Cardinality(sel)
            /\ \A k \in 1..Len(result.found) :
                  result.found[k] = index[Nth(sel, k)]
            /\ \A w \in TranslatorNames :
                  Lower(w) = Lower(v) =>
                      FindPoemsByTranslator(w, index) = result.found

\* a name with a capital, found in two records of three: one that spells it
\* in the other case, and a later one; the record between them is left out
C8_Witness ==
    /\ result.fn = "find_poems_by_translator"
    /\ call.translator_name = <<"S", "m">>
    /\ Len(call.index) = 3
    /\ Len(result.found) = 2
    /\ result.found = <<call.index[1], call.index[3]>>
    /\ call.index[1] # call.index[3]
    /\ "text" \in DOMAIN call.index[1]
    /\ ~Occurs(call.translator_name, call.index[1].text)

====
